---- MODULE Spec2Model ----
(***************************************************************************)
(* Model of email_gen/api/api.py: a document is fetched, tokenized, every  *)
(* word occurrence is looked up concurrently on a thread pool, the words   *)
(* whose lookup answers 404 are gathered in completion order, validated    *)
(* against the document text and hashed.                                   *)
(*                                                                         *)
(* Strings are sequences of one-character strings.  The md5 hex digest is  *)
(* kept symbolic: md5_hexdigest(s) is the record [md5 |-> s], that is, two *)
(* digests are equal exactly when the hashed texts are equal.              *)
(***************************************************************************)
EXTENDS Integers, Sequences, FiniteSets, Bags, TLC

VARIABLES
    pc,               \* position of the coordinator (get_outside_email)
    doc_fetch,        \* what the document GET produced: [state, status]
    doc_text,         \* local doc_text
    clean_words,      \* local clean_words
    future_idx,       \* the submitted futures, in submission order
    idx,              \* enumerate(as_completed(...), start=1) counter
    word_validation,  \* local word_validation
    misspelled_words, \* local misspelled_words
    email_address,    \* what validate_and_hash produced: [exc, ret]
    prog_data,        \* the prog_data dict
    returned,         \* "no" while running, then "prog_data" or "None"
    logged,           \* the cause printed by the except clause ("" if none)
    lookups           \* bag of the spelling URLs requested so far

vars == <<pc, doc_fetch, doc_text, clean_words, future_idx, idx,
          word_validation, misspelled_words, email_address, prog_data,
          returned, logged, lookups>>

----------------------------------------------------------------------------
(* Bounds *)

MaxDocLen == 5
MaxListLen == 2
MaxWorkers == 2

----------------------------------------------------------------------------
(* Generic helpers *)

Range(s) == {s[i] : i \in DOMAIN s}

Min(S) == CHOOSE x \in S : \A y \in S : x <= y

SeqsUpTo(S, n) == UNION {[1..k -> S] : k \in 0..n}

\* Faulty variant: ' '.join instead of ''.join.
RECURSIVE JoinWithSpace(_)
JoinWithSpace(ws) ==
    IF ws = <<>> THEN <<>>
    ELSE IF Len(ws) = 1 THEN Head(ws)
    ELSE Head(ws) \o <<" ">> \o JoinWithSpace(Tail(ws))

RECURSIVE Join(_)
Join(ws) == IF ws = <<>> THEN <<>> ELSE Head(ws) \o Join(Tail(ws))

BagOfSeq(s) == [w \in Range(s) |-> Cardinality({i \in DOMAIN s : s[i] = w})]

RECURSIVE IsSubsequence(_, _)
IsSubsequence(s, t) ==
    IF s = <<>> THEN TRUE
    ELSE IF t = <<>> THEN FALSE
    ELSE IF Head(s) = Head(t) THEN IsSubsequence(Tail(s), Tail(t))
    ELSE IsSubsequence(s, Tail(t))

----------------------------------------------------------------------------
(* Characters *)

AsciiLetters ==
    {"a","b","c","d","e","f","g","h","i","j","k","l","m",
     "n","o","p","q","r","s","t","u","v","w","x","y","z",
     "A","B","C","D","E","F","G","H","I","J","K","L","M",
     "N","O","P","Q","R","S","T","U","V","W","X","Y","Z"}

\* re.sub(r"[^A-Za-z']", "", word) keeps exactly these characters
IsWordChar(c) == c \in AsciiLetters \cup {"'"}

\* re.split(' |-', ...) cuts at these characters
IsSeparator(c) == c \in {" ", "-"}

----------------------------------------------------------------------------
(* str.find and clean_and_format_document *)

\* Python's s.find(sub): lowest 0-based offset of sub in s, -1 if absent
find(s, sub) ==
    LET hits == {k \in 0..(Len(s) - Len(sub)) :
                    SubSeq(s, k + 1, k + Len(sub)) = sub}
    IN  IF hits = {} THEN -1 ELSE Min(hits)

\* Faulty variant: line breaks are left in the text.
replace_newlines_noop(s) == s

\* doc_text.replace('\n', ' ')
replace_newlines(s) == [i \in DOMAIN s |-> IF s[i] = "\n" THEN " " ELSE s[i]]

\* re.split(' |-', s): the fragments between separators, empty ones included
RECURSIVE re_split(_)
re_split(s) ==
    LET seps == {i \in DOMAIN s : IsSeparator(s[i])}
    IN  IF seps = {} THEN <<s>>
        ELSE LET k == Min(seps)
             IN  <<SubSeq(s, 1, k - 1)>> \o re_split(SubSeq(s, k + 1, Len(s)))

re_sub(word) == SelectSeq(word, IsWordChar)

NonEmptyWord(w) == w # <<>>

clean_and_format_document(text) ==
    LET doc_split_by_word == re_split(replace_newlines(text))
        cleaned == [i \in DOMAIN doc_split_by_word |->
                        re_sub(doc_split_by_word[i])]
    IN  SelectSeq(cleaned, NonEmptyWord)

----------------------------------------------------------------------------
(* validate_and_hash *)

md5_hexdigest(s) == [md5 |-> s]

\* The loop of lines 74-79: TRUE when no word raises the alignment error.
RECURSIVE InAlignment(_, _, _)
InAlignment(words, text, doc_idx) ==
    IF words = <<>> THEN TRUE
    ELSE LET i == find(text, Head(words))
         IN  IF i < doc_idx THEN FALSE
             ELSE InAlignment(Tail(words), text, i)

\* Faulty variant: the cursor is never advanced (doc_idx = idx is lost).
RECURSIVE InAlignmentNoAdvance(_, _, _)
InAlignmentNoAdvance(words, text, doc_idx) ==
    IF words = <<>> THEN TRUE
    ELSE LET i == find(text, Head(words))
         IN  IF i < doc_idx THEN FALSE
             ELSE InAlignmentNoAdvance(Tail(words), text, doc_idx)

validate_and_hash_no_advance(words, text) ==
    IF words = <<>> THEN [exc |-> "empty", ret |-> <<>>]
    ELSE IF ~InAlignmentNoAdvance(words, text, 0)
         THEN [exc |-> "alignment", ret |-> <<>>]
    ELSE [exc |-> "none", ret |-> <<md5_hexdigest(Join(words))>>]

\* Faulty variant: the empty list is not rejected (lines 71-72 missing).
validate_and_hash_no_empty_check(words, text) ==
    IF ~InAlignment(words, text, 0)
    THEN [exc |-> "alignment", ret |-> <<>>]
    ELSE [exc |-> "none", ret |-> <<md5_hexdigest(Join(words))>>]

\* Faulty variant: the cursor starts below offset 0 (doc_idx = -1).
validate_and_hash_cursor_below_zero(words, text) ==
    IF words = <<>> THEN [exc |-> "empty", ret |-> <<>>]
    ELSE IF ~InAlignment(words, text, -1)
         THEN [exc |-> "alignment", ret |-> <<>>]
    ELSE [exc |-> "none", ret |-> <<md5_hexdigest(Join(words))>>]

\* Returns [exc, ret]: exc is "none" and ret holds the digest, or exc names
\* the exception raised and ret is empty.
validate_and_hash(words, text) ==
    IF words = <<>> THEN [exc |-> "empty", ret |-> <<>>]
    ELSE IF ~InAlignment(words, text, 0)
         THEN [exc |-> "alignment", ret |-> <<>>]
    ELSE [exc |-> "none", ret |-> <<md5_hexdigest(Join(words))>>]

----------------------------------------------------------------------------
(* The HTTP collaborator: what a GET can produce *)

ServedChars == {"a", "b", " "}

ServedDocuments == SeqsUpTo(ServedChars, MaxDocLen)

DocumentStatuses == {200, 404, 500}

LookupStatuses == {204, 404, 500}

\* request_util on the document URL: the response, or the exception raised
DocumentResponses ==
    [state : {"response"}, status : DocumentStatuses, text : ServedDocuments]
    \cup {[state |-> "raised", status |-> 0, text |-> <<>>]}

SpellingUrl == <<"spelling", "/">>

\* f'https://outside-interview.herokuapp.com/spelling/{word}'
spelling_url(word) == SpellingUrl \o word

\* url.rsplit("/", 1)[-1]: what follows the last "/"
rsplit_last(url) ==
    LET slashes == {i \in DOMAIN url : url[i] = "/"}
    IN  IF slashes = {} THEN url
        ELSE SubSeq(url, (CHOOSE i \in slashes : \A j \in slashes : j <= i) + 1,
                    Len(url))

\* Faulty variant: one URL per distinct word text.
RECURSIVE DistinctUrls(_, _)
DistinctUrls(words, seen) ==
    IF words = <<>> THEN <<>>
    ELSE IF Head(words) \in seen THEN DistinctUrls(Tail(words), seen)
    ELSE <<spelling_url(Head(words))>>
            \o DistinctUrls(Tail(words), seen \cup {Head(words)})

word_urls_distinct(words) == DistinctUrls(words, {})

\* line 111: one URL per entry of clean_words
word_urls(words) == [i \in DOMAIN words |-> spelling_url(words[i])]

\* Faulty variant: the status of the document response is not looked at.
get_document_any_status(resp) ==
    IF resp.state = "raised" THEN [exc |-> "fetch raised", text |-> <<>>]
    ELSE [exc |-> "none", text |-> resp.text]

\* get_document: the text of a 200 response, an exception otherwise
get_document(resp) ==
    IF resp.state = "raised" THEN [exc |-> "fetch raised", text |-> <<>>]
    ELSE IF resp.status # 200 THEN [exc |-> "fetch status", text |-> <<>>]
    ELSE [exc |-> "none", text |-> resp.text]

\* Faulty variant: every 4xx/5xx answer counts as a misspelling.
is_misspelled_any_error(status) == status >= 400

\* line 128: resp.status_code == 404
is_misspelled(status) == status = 404

----------------------------------------------------------------------------
(* get_outside_email *)

NoEmail == [exc |-> "unset", ret |-> <<>>]

Init ==
    /\ pc = "start"
    /\ doc_fetch = [state |-> "none", status |-> 0]
    /\ doc_text = <<>>
    /\ clean_words = <<>>
    /\ future_idx = <<>>
    /\ idx = 0
    /\ word_validation = <<>>
    /\ misspelled_words = <<>>
    /\ email_address = NoEmail
    /\ prog_data = <<>>
    /\ returned = "no"
    /\ logged = ""
    /\ lookups = EmptyBag

\* Faulty variant: a future that raised is never handed to the coordinator.
FinishedIfAnswered(f) == f.state = "done"

Finished(f) == f.state \in {"done", "exc"}

Running == {i \in DOMAIN future_idx : future_idx[i].state = "running"}

Pending == {i \in DOMAIN future_idx : future_idx[i].state = "pending"}

\* lines 106-112: fetch the document, tokenize it
GetDocument ==
    /\ pc = "start"
    /\ \E resp \in DocumentResponses :
        LET got == get_document(resp) IN
        /\ doc_fetch' = [state |-> resp.state, status |-> resp.status]
        /\ \/ /\ got.exc # "none"
              /\ pc' = "error"
              /\ logged' = got.exc
              /\ returned' = "None"
              /\ UNCHANGED <<doc_text, clean_words, prog_data>>
           \/ /\ got.exc = "none"
              /\ doc_text' = got.text
              /\ clean_words' = clean_and_format_document(got.text)
              /\ prog_data' = ("document" :> got.text)
                     @@ ("word_count" :> Len(clean_and_format_document(got.text)))
              /\ pc' = "submit"
              /\ UNCHANGED <<logged, returned>>
    /\ UNCHANGED <<future_idx, idx, word_validation, misspelled_words,
                   email_address, lookups>>

\* lines 115-119: one future per URL, all queued on the pool
Submit ==
    /\ pc = "submit"
    /\ future_idx' = [i \in DOMAIN word_urls(clean_words) |->
                        [url |-> word_urls(clean_words)[i], state |-> "pending",
                         status |-> 0, yielded |-> FALSE]]
    /\ word_validation' = <<>>
    /\ misspelled_words' = <<>>
    /\ pc' = "gather"
    /\ UNCHANGED <<doc_fetch, doc_text, clean_words, idx, email_address,
                   prog_data, returned, logged, lookups>>

\* A free pool thread takes the oldest queued work item and issues its GET.
WorkerStart ==
    /\ Pending # {}
    /\ Cardinality(Running) < MaxWorkers
    /\ LET i == Min(Pending) IN
        /\ future_idx' = [future_idx EXCEPT ![i].state = "running"]
        /\ lookups' = lookups (+) SetToBag({future_idx[i].url})
    /\ UNCHANGED <<pc, doc_fetch, doc_text, clean_words, idx, word_validation,
                   misspelled_words, email_address, prog_data, returned, logged>>

\* Faulty variant: the pool thread records its verdict in the shared lists
\* itself, and the coordinator records it again when it gathers the future.
WorkerFinishAppends(i) ==
    /\ future_idx[i].state = "running"
    /\ \/ \E st \in LookupStatuses :
            /\ future_idx' = [future_idx EXCEPT ![i].state = "done",
                                                ![i].status = st]
            /\ misspelled_words' =
                  IF is_misspelled(st)
                  THEN Append(misspelled_words, rsplit_last(future_idx[i].url))
                  ELSE misspelled_words
            /\ word_validation' = Append(word_validation,
                  [idx |-> idx + 1, total |-> Len(clean_words),
                   word |-> rsplit_last(future_idx[i].url),
                   valid |-> ~is_misspelled(st)])
       \/ /\ future_idx' = [future_idx EXCEPT ![i].state = "exc"]
          /\ UNCHANGED <<word_validation, misspelled_words>>
    /\ UNCHANGED <<pc, doc_fetch, doc_text, clean_words, idx, email_address,
                   prog_data, returned, logged, lookups>>

\* request_util in a pool thread: the GET answers, or raises (timeout=3)
WorkerFinish(i) ==
    /\ future_idx[i].state = "running"
    /\ \/ \E st \in LookupStatuses :
            future_idx' = [future_idx EXCEPT ![i].state = "done", ![i].status = st]
       \/ future_idx' = [future_idx EXCEPT ![i].state = "exc"]
    /\ UNCHANGED <<pc, doc_fetch, doc_text, clean_words, idx, word_validation,
                   misspelled_words, email_address, prog_data, returned, logged,
                   lookups>>

\* Faulty variant: the trace is numbered from 0 (enumerate without start=1).
CollectFromZero(i) ==
    /\ pc = "gather"
    /\ Finished(future_idx[i])
    /\ ~future_idx[i].yielded
    /\ idx' = idx + 1
    /\ future_idx' = [future_idx EXCEPT ![i].yielded = TRUE]
    /\ LET word == rsplit_last(future_idx[i].url) IN
       \/ /\ future_idx[i].state = "exc"
          /\ pc' = "unwind"
          /\ logged' = "lookup raised"
          /\ UNCHANGED <<word_validation, misspelled_words>>
       \/ /\ future_idx[i].state = "done"
          /\ misspelled_words' =
                IF is_misspelled(future_idx[i].status)
                THEN Append(misspelled_words, word) ELSE misspelled_words
          /\ word_validation' = Append(word_validation,
                [idx |-> idx, total |-> Len(clean_words), word |-> word,
                 valid |-> ~is_misspelled(future_idx[i].status)])
          /\ UNCHANGED <<pc, logged>>
    /\ UNCHANGED <<doc_fetch, doc_text, clean_words, email_address, prog_data,
                   returned, lookups>>

\* lines 120-132: one iteration of the as_completed loop
Collect(i) ==
    /\ pc = "gather"
    /\ Finished(future_idx[i])
    /\ ~future_idx[i].yielded
    /\ idx' = idx + 1
    /\ future_idx' = [future_idx EXCEPT ![i].yielded = TRUE]
    /\ LET word == rsplit_last(future_idx[i].url) IN
       \/ /\ future_idx[i].state = "exc"      \* future.result() re-raises
          /\ pc' = "unwind"
          /\ logged' = "lookup raised"
          /\ UNCHANGED <<word_validation, misspelled_words>>
       \/ /\ future_idx[i].state = "done"
          /\ misspelled_words' =
                IF is_misspelled(future_idx[i].status)
                THEN Append(misspelled_words, word) ELSE misspelled_words
          /\ word_validation' = Append(word_validation,
                [idx |-> idx + 1, total |-> Len(clean_words), word |-> word,
                 valid |-> ~is_misspelled(future_idx[i].status)])
          /\ UNCHANGED <<pc, logged>>
    /\ UNCHANGED <<doc_fetch, doc_text, clean_words, email_address, prog_data,
                   returned, lookups>>

EmailSuffix == <<"@outsideinc.com">>

\* Faulty variant: prog_data is returned although validate_and_hash raised.
FinishReturnsPartial ==
    /\ pc = "gather"
    /\ \A i \in DOMAIN future_idx : future_idx[i].yielded
    /\ LET hashed == validate_and_hash(misspelled_words, doc_text)
           stored == ("word_validation" :> word_validation)
                        @@ ("misspelled_words" :> misspelled_words) @@ prog_data
       IN
        /\ email_address' = hashed
        /\ \/ /\ hashed.exc = "none"
              /\ prog_data' = ("email_address" :> (hashed.ret \o EmailSuffix))
                                @@ stored
              /\ UNCHANGED logged
           \/ /\ hashed.exc # "none"
              /\ prog_data' = stored
              /\ logged' = hashed.exc
        /\ returned' = "prog_data"
        /\ pc' = "returned"
    /\ UNCHANGED <<doc_fetch, doc_text, clean_words, future_idx, idx,
                   word_validation, misspelled_words, lookups>>

\* lines 135-149 once as_completed is exhausted: store, validate, hash, return
Finish ==
    /\ pc = "gather"
    /\ \A i \in DOMAIN future_idx : future_idx[i].yielded
    /\ LET hashed == validate_and_hash(misspelled_words, doc_text)
           stored == ("word_validation" :> word_validation)
                        @@ ("misspelled_words" :> misspelled_words) @@ prog_data
       IN
        /\ email_address' = hashed
        /\ \/ /\ hashed.exc = "none"
              /\ prog_data' = ("email_address" :> (hashed.ret \o EmailSuffix))
                                @@ stored
              /\ returned' = "prog_data"
              /\ pc' = "returned"
              /\ UNCHANGED logged
           \/ /\ hashed.exc # "none"
              /\ prog_data' = stored
              /\ returned' = "None"
              /\ logged' = hashed.exc
              /\ pc' = "error"
    /\ UNCHANGED <<doc_fetch, doc_text, clean_words, future_idx, idx,
                   word_validation, misspelled_words, lookups>>

\* Faulty variant: the pool is left without waiting for its futures
\* (shutdown(wait=False)).
UnwindNoWait ==
    /\ pc = "unwind"
    /\ pc' = "error"
    /\ returned' = "None"
    /\ UNCHANGED <<doc_fetch, doc_text, clean_words, future_idx, idx,
                   word_validation, misspelled_words, email_address, prog_data,
                   logged, lookups>>

\* The exception leaves the with-block: the pool is shut down with wait=True,
\* then the except clause of lines 147-149 logs it and None is returned.
Unwind ==
    /\ pc = "unwind"
    /\ \A i \in DOMAIN future_idx : Finished(future_idx[i])
    /\ pc' = "error"
    /\ returned' = "None"
    /\ UNCHANGED <<doc_fetch, doc_text, clean_words, future_idx, idx,
                   word_validation, misspelled_words, email_address, prog_data,
                   logged, lookups>>

Next ==
    \/ GetDocument
    \/ Submit
    \/ WorkerStart
    \/ \E i \in DOMAIN future_idx : WorkerFinish(i)
    \/ \E i \in DOMAIN future_idx : Collect(i)
    \/ Finish
    \/ Unwind

Spec == Init /\ [][Next]_vars

----------------------------------------------------------------------------
(* The pure functions on their own: clean_and_format_document and          *)
(* validate_and_hash applied to a document and a word list.                *)

DocChars == {"a", "b", " ", "."}

Documents == SeqsUpTo(DocChars, MaxDocLen)

WordUniverse == {<<"a">>, <<"b">>, <<"a", "b">>}

\* The lists handed to validate_and_hash: any short list over the word
\* universe, and the document's own word sequence.
InputLists(text) ==
    SeqsUpTo(WordUniverse, MaxListLen) \cup {clean_and_format_document(text)}

PureInit ==
    /\ pc = "call"
    /\ doc_fetch = [state |-> "none", status |-> 0]
    /\ doc_text \in Documents
    /\ clean_words = <<>>
    /\ future_idx = <<>>
    /\ idx = 0
    /\ word_validation = <<>>
    /\ misspelled_words \in InputLists(doc_text)
    /\ email_address = NoEmail
    /\ prog_data = <<>>
    /\ returned = "no"
    /\ logged = ""
    /\ lookups = EmptyBag

Tokenize ==
    /\ pc = "call"
    /\ clean_words' = clean_and_format_document(doc_text)
    /\ pc' = "tokenized"
    /\ UNCHANGED <<doc_fetch, doc_text, future_idx, idx, word_validation,
                   misspelled_words, email_address, prog_data, returned,
                   logged, lookups>>

Validate ==
    /\ pc = "tokenized"
    /\ email_address' = validate_and_hash(misspelled_words, doc_text)
    /\ pc' = "validated"
    /\ UNCHANGED <<doc_fetch, doc_text, clean_words, future_idx, idx,
                   word_validation, misspelled_words, prog_data, returned,
                   logged, lookups>>

PureNext == Tokenize \/ Validate

PureSpec == PureInit /\ [][PureNext]_vars

----------------------------------------------------------------------------
(* Vocabulary of the properties *)

Terminal == pc \in {"returned", "error"}

FetchFailed ==
    \/ doc_fetch.state = "raised"
    \/ doc_fetch.state = "response" /\ doc_fetch.status # 200

Submitted == pc \in {"gather", "unwind", "returned", "error"} /\ ~FetchFailed

Raised == {i \in DOMAIN future_idx : future_idx[i].state = "exc"}

AllLookupsAnswered ==
    /\ Submitted
    /\ \A i \in DOMAIN future_idx : future_idx[i].state = "done"

\* The words whose lookup answered 404, in document order, from index i on
RECURSIVE NotFoundWords(_)
NotFoundWords(i) ==
    IF i > Len(future_idx) THEN <<>>
    ELSE (IF future_idx[i].state = "done" /\ future_idx[i].status = 404
          THEN <<clean_words[i]>> ELSE <<>>) \o NotFoundWords(i + 1)

\* Offsets of the first occurrence in doc_text of each word of a list
Positions(words) == [i \in DOMAIN words |-> find(doc_text, words[i])]

Count(s, w) == Cardinality({i \in DOMAIN s : s[i] = w})

\* s.find(sub, start): lowest offset of sub in s at or after start, else -1
find_from(s, sub, start) ==
    LET hits == {k \in start..(Len(s) - Len(sub)) :
                    SubSeq(s, k + 1, k + Len(sub)) = sub}
    IN  IF hits = {} THEN -1 ELSE Min(hits)

\* A forward-only cursor search: each word is looked for at or after the
\* cursor, which then moves to the start of the occurrence found.
RECURSIVE ForwardSearchLocates(_, _, _)
ForwardSearchLocates(words, text, cursor) ==
    IF words = <<>> THEN TRUE
    ELSE LET i == find_from(text, Head(words), cursor)
         IN  i >= 0 /\ ForwardSearchLocates(Tail(words), text, i)

NonDecreasing(p) == \A i \in DOMAIN p : i > 1 => p[i - 1] <= p[i]

----------------------------------------------------------------------------
(* Properties of get_outside_email (specification Spec) *)

\* C1: when every lookup answers and some answer 404, get_outside_email
\* returns prog_data and its misspelled_words is the list of the words that
\* answered 404 in document order, whatever the completion order was.
C1_MisspelledInDocumentOrder ==
    (Terminal /\ AllLookupsAnswered /\ NotFoundWords(1) # <<>>)
        => /\ returned = "prog_data"
           /\ prog_data["misspelled_words"] = NotFoundWords(1)

\* C2: every returned email_address is the digest of the misspelled words in
\* document order followed by the suffix, so it depends only on the document
\* and the verdicts, never on the completion order.
C2_EmailDeterministic ==
    returned = "prog_data"
        => prog_data["email_address"]
              = <<md5_hexdigest(Join(NotFoundWords(1)))>> \o EmailSuffix

\* C3: when exactly one lookup raised, the run is not ended by that
\* exception: every future is still gathered, the word of the failed lookup
\* is recorded as valid, and the error logged (if any) is not the lookup's.
C3_LookupFailureNotFatal ==
    (Terminal /\ Submitted /\ Cardinality(Raised) = 1)
        => /\ logged # "lookup raised"
           /\ Len(word_validation) = Len(clean_words)
           /\ \A i \in Raised :
                \E k \in DOMAIN word_validation :
                    /\ word_validation[k].word = clean_words[i]
                    /\ word_validation[k].valid

\* C4: after a document fetch that raised or answered a status other than
\* 200 the run is over with None returned, nothing stored, no future
\* submitted and no spelling lookup requested.
C4_FailedFetchAborts ==
    FetchFailed
        => /\ pc = "error"
           /\ returned = "None"
           /\ DOMAIN prog_data = {}
           /\ future_idx = <<>>
           /\ BagCardinality(lookups) = 0

C4_Witness ==
    /\ pc = "error"
    /\ doc_fetch.state = "response"
    /\ doc_fetch.status = 404

\* C9: once every lookup has answered and been gathered, misspelled_words
\* holds, as a multiset, exactly the word occurrences whose lookup answered
\* 404; an occurrence answered with any other status is not in it.
C9_MisspelledIffNotFound ==
    (AllLookupsAnswered /\ \A i \in DOMAIN future_idx : future_idx[i].yielded)
        => BagOfSeq(misspelled_words) = BagOfSeq(NotFoundWords(1))

C9_Witness ==
    /\ Terminal
    /\ AllLookupsAnswered
    /\ \E i, j, k \in DOMAIN future_idx :
        /\ future_idx[i].status = 404
        /\ future_idx[j].status = 500
        /\ future_idx[k].status = 204
    /\ Len(misspelled_words) = 1

\* C10: after a successful fetch there is one future per entry of the
\* document's word sequence, for that entry's URL; no URL is ever requested
\* more often than it has futures, and when the run is over every URL has
\* been requested once per occurrence of its word.
C10_OneLookupPerOccurrence ==
    Submitted =>
        LET words == clean_and_format_document(doc_text)
            urls == [i \in DOMAIN words |-> spelling_url(words[i])]
        IN  /\ Len(future_idx) = Len(words)
            /\ prog_data["word_count"] = Len(future_idx)
            /\ \A i \in DOMAIN future_idx : future_idx[i].url = urls[i]
            /\ \A u \in BagToSet(lookups) :
                   CopiesIn(u, lookups) <= CopiesIn(u, BagOfSeq(urls))
            /\ Terminal => lookups = BagOfSeq(urls)

C10_Witness ==
    /\ Terminal
    /\ Submitted
    /\ Len(clean_words) = 3
    /\ \E u \in BagToSet(lookups) : CopiesIn(u, lookups) = 2

----------------------------------------------------------------------------
(* Properties of the pure functions (specification PureSpec) *)

\* C5: for a document with at least one word, validate_and_hash applied to
\* the document's own word sequence raises nothing and hashes that sequence.
C5_RoundTrip ==
    (pc = "validated" /\ clean_words # <<>> /\ misspelled_words = clean_words)
        => /\ email_address.exc = "none"
           /\ email_address.ret = <<md5_hexdigest(Join(clean_words))>>

\* C6: whenever validate_and_hash returns a digest for a list made of word
\* occurrences of the document (each word used at most as often as the
\* document has it), the list is in document order: it is a subsequence of
\* the document's word sequence.
C6_MisorderDetected ==
    (pc = "validated" /\ email_address.exc = "none"
        /\ \A w \in Range(misspelled_words) :
              Count(misspelled_words, w) <= Count(clean_words, w))
        => IsSubsequence(misspelled_words, clean_words)

\* C7: validate_and_hash searches each word at or after the cursor, so
\* every non-empty list that is a subsequence of the document's word
\* sequence and whose words such a forward search locates one after the
\* other is accepted without an alignment error.
C7_ForwardCursorAccepts ==
    (pc = "validated" /\ misspelled_words # <<>>
        /\ IsSubsequence(misspelled_words, clean_words)
        /\ ForwardSearchLocates(misspelled_words, doc_text, 0))
        => email_address.exc = "none"

\* C8: validate_and_hash returns a digest only when the first-occurrence
\* offsets of the words are non-decreasing along the list; a list with a
\* word whose offset is below its predecessor's raises the alignment error;
\* a non-empty list of words of the text with non-decreasing offsets, equal
\* ones included, is accepted.
C8_PositionsNonDecreasing ==
    pc = "validated" =>
        LET p == Positions(misspelled_words) IN
        /\ email_address.exc = "none" => NonDecreasing(p)
        /\ ~NonDecreasing(p)
              => email_address.exc = "alignment" /\ email_address.ret = <<>>
        /\ (misspelled_words # <<>> /\ NonDecreasing(p)
                /\ \A i \in DOMAIN p : p[i] >= 0)
              => email_address.exc = "none"

C8_Witness ==
    /\ pc = "validated"
    /\ email_address.exc = "none"
    /\ Len(misspelled_words) = 2
    /\ misspelled_words[1] # misspelled_words[2]
    /\ find(doc_text, misspelled_words[1]) = find(doc_text, misspelled_words[2])

----------------------------------------------------------------------------
(* Further properties of get_outside_email (specification Spec) *)

NoLookupNotFound ==
    \A i \in DOMAIN future_idx : future_idx[i].status # 404

\* C11: validate_and_hash given the empty list raises the empty-result
\* error and returns no digest, so a run in which every lookup answers and
\* none answers 404 logs that error, returns None and stores no
\* email_address.
C11_EmptyResultFails ==
    (Terminal /\ AllLookupsAnswered /\ NoLookupNotFound)
        => /\ misspelled_words = <<>>
           /\ email_address = [exc |-> "empty", ret |-> <<>>]
           /\ logged = "empty"
           /\ returned = "None"
           /\ "email_address" \notin DOMAIN prog_data

C11_Witness ==
    /\ Terminal
    /\ AllLookupsAnswered
    /\ NoLookupNotFound
    /\ Len(future_idx) = 2
    /\ future_idx[1].status = 204
    /\ future_idx[2].status = 500
    /\ logged = "empty"


ResultFields ==
    {"document", "word_count", "word_validation", "misspelled_words",
     "email_address"}

\* C12: a run ends in exactly one of two ways: prog_data is returned with
\* all five fields and nothing is logged, or an error is logged and None is
\* returned; nothing is returned before the run is over.
C12_NoPartialResult ==
    /\ returned \in {"no", "prog_data", "None"}
    /\ Terminal <=> returned # "no"
    /\ returned = "prog_data"
          => pc = "returned" /\ DOMAIN prog_data = ResultFields /\ logged = ""
    /\ returned = "None"
          => pc = "error" /\ logged # ""

C12_Witness ==
    /\ returned = "None"
    /\ logged = "alignment"
    /\ DOMAIN prog_data = ResultFields \ {"email_address"}


----------------------------------------------------------------------------
(* The tokenizer on its own, over an alphabet with every kind of character *)
(* it tells apart: lower and upper case letters, the apostrophe, the three *)
(* cutting characters and a character that is deleted.                     *)

TokChars == {"a", "B", "'", " ", "-", "\n", "."}

TokDocuments == SeqsUpTo(TokChars, MaxDocLen)

TokInit ==
    /\ pc = "call"
    /\ doc_fetch = [state |-> "none", status |-> 0]
    /\ doc_text \in TokDocuments
    /\ clean_words = <<>>
    /\ future_idx = <<>>
    /\ idx = 0
    /\ word_validation = <<>>
    /\ misspelled_words = <<>>
    /\ email_address = NoEmail
    /\ prog_data = <<>>
    /\ returned = "no"
    /\ logged = ""
    /\ lookups = EmptyBag

TokNext == Tokenize

TokSpec == TokInit /\ [][TokNext]_vars

CutChars == {" ", "-", "\n"}

KeptChars == AsciiLetters \cup {"'"}

\* One left-to-right pass over the text: a cutting character closes the
\* word being built, a kept character extends it, any other is dropped.
RECURSIVE ScanWords(_, _)
ScanWords(text, cur) ==
    LET closed == IF cur = <<>> THEN <<>> ELSE <<cur>> IN
    IF text = <<>> THEN closed
    ELSE IF Head(text) \in CutChars THEN closed \o ScanWords(Tail(text), <<>>)
    ELSE IF Head(text) \in KeptChars
         THEN ScanWords(Tail(text), Append(cur, Head(text)))
    ELSE ScanWords(Tail(text), cur)

RECURSIVE Concat(_)
Concat(ws) ==
    IF ws = <<>> THEN <<>>
    ELSE Concat(SubSeq(ws, 1, Len(ws) - 1)) \o ws[Len(ws)]

IsKeptChar(c) == c \in KeptChars

\* C13: clean_and_format_document returns, in reading order, the pieces of
\* the text between spaces, hyphens and line breaks, each without its
\* characters outside [A-Za-z'], empty pieces left out, case and repeats
\* kept; joined together they are the text without those characters.
C13_TokenizerScan ==
    pc = "tokenized"
        => /\ clean_words = ScanWords(doc_text, <<>>)
           /\ \A i \in DOMAIN clean_words : clean_words[i] # <<>>
           /\ Concat(clean_words) = SelectSeq(doc_text, IsKeptChar)

C13_Witness ==
    /\ pc = "tokenized"
    /\ \E i, j, k \in DOMAIN doc_text :
          doc_text[i] = "-" /\ doc_text[j] = "\n" /\ doc_text[k] = "B"
    /\ Len(clean_words) = 3
    /\ clean_words[1] = clean_words[2]


\* C14: every word clean_and_format_document returns occurs contiguously in
\* the document text, so its first-occurrence offset is defined.
C14_WordsAreSubstrings ==
    pc = "tokenized"
        => \A i \in DOMAIN clean_words : find(doc_text, clean_words[i]) >= 0


----------------------------------------------------------------------------
(* Further properties of the pure functions (specification PureSpec) *)

\* w occurs contiguously in text
Occurs(w, text) ==
    \E k \in 0..(Len(text) - Len(w)) :
        \A j \in 1..Len(w) : text[k + j] = w[j]

\* C15: for a non-empty list holding, at any index, a word that does not
\* occur in the text, validate_and_hash raises the alignment error and
\* returns no digest.
C15_AbsentWordRejected ==
    (pc = "validated" /\ misspelled_words # <<>>
        /\ \E i \in DOMAIN misspelled_words :
              ~Occurs(misspelled_words[i], doc_text))
        => email_address = [exc |-> "alignment", ret |-> <<>>]

C15_Witness ==
    /\ pc = "validated"
    /\ Len(misspelled_words) = 2
    /\ find(doc_text, misspelled_words[1]) = 0
    /\ find(doc_text, misspelled_words[2]) = -1
    /\ email_address.exc = "alignment"


----------------------------------------------------------------------------
(* Further properties of get_outside_email, continued (specification Spec) *)

\* The words of the entries of a validation trace whose verdict is False
RECURSIVE FalseWords(_)
FalseWords(trace) ==
    IF trace = <<>> THEN <<>>
    ELSE (IF Head(trace).valid THEN <<>> ELSE <<Head(trace).word>>)
            \o FalseWords(Tail(trace))

\* C16: when prog_data is returned, the digest is that of the gathered
\* words put end to end, in the gathered order and without separator; the
\* email_address field is that digest followed by '@outsideinc.com', and the
\* misspelled_words field is the gathered list, which validate_and_hash
\* left as it was.
C16_DigestOfConcatenation ==
    returned = "prog_data"
        => /\ email_address = [exc |-> "none",
                               ret |-> <<[md5 |-> Concat(misspelled_words)]>>]
           /\ prog_data["misspelled_words"] = misspelled_words
           /\ misspelled_words = FalseWords(word_validation)
           /\ prog_data["email_address"]
                = <<[md5 |-> Concat(prog_data["misspelled_words"])],
                    "@outsideinc.com">>

C16_Witness ==
    /\ returned = "prog_data"
    /\ Len(misspelled_words) = 2
    /\ misspelled_words[1] # misspelled_words[2]


Gathered ==
    {i \in DOMAIN future_idx :
        future_idx[i].yielded /\ future_idx[i].state = "done"}

TraceWords(trace) == [k \in DOMAIN trace |-> trace[k].word]

\* Every gathered answer is in the trace once, and nothing else is.
EachGatheredOnce ==
    /\ Len(word_validation) = Cardinality(Gathered)
    /\ \A w \in Range(clean_words) \cup Range(TraceWords(word_validation)) :
          Count(TraceWords(word_validation), w)
              = Cardinality({i \in Gathered : clean_words[i] = w})
    /\ (AllLookupsAnswered /\ Gathered = DOMAIN future_idx)
          => Len(word_validation) = Len(clean_words)

\* A step that changes a result list is one iteration of the coordinator's
\* loop: it gathers exactly one finished future, changes the state of no
\* future, and appends one entry to the trace and at most one word.
OnlyCoordinatorAppends ==
    (word_validation' # word_validation
        \/ misspelled_words' # misspelled_words)
    => /\ pc = "gather"
       /\ \E i \in DOMAIN future_idx :
            /\ Finished(future_idx[i])
            /\ ~future_idx[i].yielded
            /\ future_idx' = [future_idx EXCEPT ![i].yielded = TRUE]
       /\ Len(word_validation') = Len(word_validation) + 1
       /\ SubSeq(word_validation', 1, Len(word_validation)) = word_validation
       /\ \/ misspelled_words' = misspelled_words
          \/ /\ Len(misspelled_words') = Len(misspelled_words) + 1
             /\ SubSeq(misspelled_words', 1, Len(misspelled_words))
                    = misspelled_words

\* C17: the result lists are appended to only by the coordinator, one
\* gathered future at a time, never by a pool thread; no answer is lost or
\* recorded twice, and when every lookup has answered and been gathered the
\* trace has word_count entries.
C17_SingleAggregator ==
    []EachGatheredOnce /\ [][OnlyCoordinatorAppends]_vars

C17_Witness ==
    /\ pc = "gather"
    /\ AllLookupsAnswered
    /\ Gathered = DOMAIN future_idx
    /\ Len(word_validation) = 3


\* C18: when a lookup raised, every future that was submitted has still run
\* to its end (answered or raised, none left queued, running or cancelled)
\* and its URL has been requested by the time get_outside_email returns.
C18_SiblingsComplete ==
    (Terminal /\ Submitted /\ Raised # {})
        => /\ \A i \in DOMAIN future_idx :
                future_idx[i].state \in {"done", "exc"}
           /\ \A i \in DOMAIN future_idx :
                CopiesIn(future_idx[i].url, lookups) >= 1
           /\ BagCardinality(lookups) = Len(future_idx)

C18_Witness ==
    /\ Terminal
    /\ Cardinality(Raised) = 1
    /\ \E i \in DOMAIN future_idx :
          future_idx[i].state = "done" /\ ~future_idx[i].yielded
    /\ Len(future_idx) = 3


\* The trace is numbered 1, 2, ... out of the word count, and the words of
\* its False entries, in trace order, are misspelled_words.
TraceNumbered ==
    /\ \A k \in DOMAIN word_validation :
          /\ word_validation[k].idx = k
          /\ word_validation[k].total = Len(clean_words)
    /\ FalseWords(word_validation) = misspelled_words
    /\ (AllLookupsAnswered /\ Gathered = DOMAIN future_idx)
          => /\ Len(word_validation) = prog_data["word_count"]
             /\ idx = prog_data["word_count"]

\* The step that adds a trace entry appends the entry's word to
\* misspelled_words exactly when the entry's verdict is False.
FalseIffAppended ==
    Len(word_validation') = Len(word_validation) + 1
    => LET entry == word_validation'[Len(word_validation')] IN
       /\ ~entry.valid => misspelled_words' = Append(misspelled_words, entry.word)
       /\ entry.valid => misspelled_words' = misspelled_words

\* C19: the validation trace lists the gathered lookups in the order they
\* were gathered, numbered 1..word_count without gap or repeat; an entry is
\* False exactly when its word was appended to misspelled_words in that
\* step, so misspelled_words is the False entries' words in trace order.
C19_TraceInCompletionOrder ==
    []TraceNumbered /\ [][FalseIffAppended]_vars

C19_Witness ==
    /\ AllLookupsAnswered
    /\ Len(word_validation) = 3
    /\ Len(misspelled_words) = 2
    /\ clean_words[1] # clean_words[3]
    /\ misspelled_words = <<clean_words[3], clean_words[1]>>


----------------------------------------------------------------------------
(* Termination.  Every GET answers or raises (timeout=3), the pool threads  *)
(* are scheduled, and the coordinator goes on whenever it can: each step    *)
(* that stays possible is eventually taken.                                 *)

Fairness ==
    /\ WF_vars(GetDocument)
    /\ WF_vars(Submit)
    /\ WF_vars(WorkerStart)
    /\ WF_vars(\E i \in DOMAIN future_idx : WorkerFinish(i))
    /\ WF_vars(\E i \in DOMAIN future_idx : Collect(i))
    /\ WF_vars(Finish)
    /\ WF_vars(Unwind)

FairSpec == Init /\ [][Next]_vars /\ Fairness

\* C20: every run of get_outside_email eventually is over, with prog_data
\* returned or an error logged; the coordinator never waits for ever.
C20_Terminates == <>Terminal

C20_Witness ==
    /\ pc = "returned"
    /\ Len(future_idx) = 3
    /\ \E i \in DOMAIN future_idx : future_idx[i].status = 204

====
